---- MODULE Spec2Model ----
(***************************************************************************)
(* A model of the 3D print cost estimator (src/app.py, src/queue_utils.py). *)
(*                                                                         *)
(* Text is modelled at the level of lexical tokens: a line is a sequence   *)
(* of tokens, a token is a word, a punctuation character, one run of       *)
(* blanks or one maximal run of digits.  The regular expressions of        *)
(* extract_superslicer_time_from_gcode are kept as data (time_patterns)    *)
(* and run by a backtracking matcher with the order of Python's re module. *)
(* Money is counted in cents, wall thickness in tenths of a millimetre.    *)
(***************************************************************************)
EXTENDS Integers, Sequences, FiniteSets, TLC

----------------------------------------------------------------------------
(* F applied to the value of v, v evaluated once: an assignment to a local
   variable. *)
With(v, F(_)) == CHOOSE y \in { F(x) : x \in {v} } : TRUE

----------------------------------------------------------------------------
(* Tokens and lines *)

Tok(s) == [t |-> s, n |-> 0]
\* a maximal run of digits whose value is k
Num(k) == [t |-> "d", n |-> k]
\* a run of digits longer than int() converts: int() raises ValueError
BigNum == [t |-> "D", n |-> 0]
WS == Tok(" ")

IsDigits(tok) == tok.t \in {"d", "D"}

\* str.lower() on one token
LowerTok(tok) ==
    CASE tok.t = "TIME" -> Tok("time")
      [] tok.t = "H" -> Tok("h")
      [] tok.t = "M" -> Tok("m")
      [] tok.t = "S" -> Tok("s")
      [] OTHER -> tok

\* line.lower()
Lower(line) == [i \in 1..Len(line) |-> LowerTok(line[i])]

RECURSIVE LStrip(_)
LStrip(line) ==
    IF line # <<>> /\ Head(line) = WS THEN LStrip(Tail(line)) ELSE line

RECURSIVE RStrip(_)
RStrip(line) ==
    IF line # <<>> /\ line[Len(line)] = WS
    THEN RStrip(SubSeq(line, 1, Len(line) - 1))
    ELSE line

\* line.strip()
Strip(line) == RStrip(LStrip(line))

\* line.startswith(';')
StartsWithSemi(line) == line # <<>> /\ line[1] = Tok(";")

----------------------------------------------------------------------------
(* Regular expressions: the elements the time patterns are made of *)

Lit(s) == [k |-> "lit", s |-> s]
\* \s*
Ws0 == [k |-> "ws0", s |-> ""]
\* \s+
Ws1 == [k |-> "ws1", s |-> ""]
\* .*?
Lazy == [k |-> "lazy", s |-> ""]
\* (\d+)
Grp == [k |-> "grp", s |-> ""]

\* the tail shared by the hours-minutes-seconds patterns: \s*(\d+)h\s*(\d+)m\s*(\d+)s
HmsTail == <<Ws0, Grp, Lit("h"), Ws0, Grp, Lit("m"), Ws0, Grp, Lit("s")>>
\* \s*(\d+)m\s*(\d+)s
MsTail == <<Ws0, Grp, Lit("m"), Ws0, Grp, Lit("s")>>

EstimatedPrintingTime ==
    <<Lit(";"), Ws0, Lit("estimated"), Ws1, Lit("printing"), Ws1, Lit("time"), Lazy>>
PrintTime == <<Lit(";"), Ws0, Lit("print"), Ws1, Lit("time"), Lazy>>
TotalPrintTime ==
    <<Lit(";"), Ws0, Lit("total"), Ws1, Lit("print"), Ws1, Lit("time"), Lazy>>

\* the pattern list without the 'total print time' pattern
PatternsWithoutTotal ==
    << EstimatedPrintingTime \o <<Lit("=")>> \o HmsTail,
       EstimatedPrintingTime \o <<Lit(":")>> \o HmsTail,
       PrintTime \o <<Lit(":")>> \o HmsTail,
       EstimatedPrintingTime \o <<Lit(":")>> \o MsTail,
       PrintTime \o <<Lit(":")>> \o MsTail,
       <<Lit(";"), Ws0, Lit("TIME"), Lit(":"), Ws0, Grp>>,
       <<Lit(";"), Ws0, Lit("printing"), Ws1, Lit("time"), Lazy,
         Grp, Lit(":"), Grp, Lit(":"), Grp>> >>

\* the pattern list with a colon pair pattern in the place of the triple
PatternsWithPairs ==
    << EstimatedPrintingTime \o <<Lit("=")>> \o HmsTail,
       EstimatedPrintingTime \o <<Lit(":")>> \o HmsTail,
       PrintTime \o <<Lit(":")>> \o HmsTail,
       TotalPrintTime \o <<Lit(":")>> \o HmsTail,
       EstimatedPrintingTime \o <<Lit(":")>> \o MsTail,
       PrintTime \o <<Lit(":")>> \o MsTail,
       <<Lit(";"), Ws0, Lit("TIME"), Lit(":"), Ws0, Grp>>,
       <<Lit(";"), Ws0, Lit("printing"), Ws1, Lit("time"), Lazy,
         Grp, Lit(":"), Grp>> >>

\* time_patterns, in the order of the list
time_patterns ==
    << EstimatedPrintingTime \o <<Lit("=")>> \o HmsTail,
       EstimatedPrintingTime \o <<Lit(":")>> \o HmsTail,
       PrintTime \o <<Lit(":")>> \o HmsTail,
       TotalPrintTime \o <<Lit(":")>> \o HmsTail,
       EstimatedPrintingTime \o <<Lit(":")>> \o MsTail,
       PrintTime \o <<Lit(":")>> \o MsTail,
       <<Lit(";"), Ws0, Lit("TIME"), Lit(":"), Ws0, Grp>>,
       <<Lit(";"), Ws0, Lit("printing"), Ws1, Lit("time"), Lazy,
         Grp, Lit(":"), Grp, Lit(":"), Grp>> >>

NoMatch == [ok |-> FALSE, g |-> <<>>]

\* the number of blank tokens of line from position i on
RECURSIVE BlankRun(_, _)
BlankRun(line, i) ==
    IF i <= Len(line) /\ line[i] = WS THEN 1 + BlankRun(line, i + 1) ELSE 0

\* re.IGNORECASE: a literal matches a token whatever the case of either
LitMatches(s, tok) == LowerTok(Tok(s)) = LowerTok(tok)

RECURSIVE MatchFrom(_, _, _, _, _)
RECURSIVE TryGreedy(_, _, _, _, _, _, _)
RECURSIVE TryLazy(_, _, _, _, _)

\* the elements k.. of pat matched against line from position i on, g the
\* groups captured so far: the first match in backtracking order
MatchFrom(pat, k, line, i, g) ==
    IF k > Len(pat) THEN [ok |-> TRUE, g |-> g]
    ELSE LET e == pat[k] IN
      CASE e.k = "lit" ->
             IF i <= Len(line) /\ LitMatches(e.s, line[i])
             THEN MatchFrom(pat, k + 1, line, i + 1, g)
             ELSE NoMatch
        [] e.k = "grp" ->
             IF i <= Len(line) /\ IsDigits(line[i])
             THEN MatchFrom(pat, k + 1, line, i + 1, Append(g, line[i]))
             ELSE NoMatch
        [] e.k = "ws0" -> TryGreedy(pat, k, line, i, g, BlankRun(line, i), 0)
        [] e.k = "ws1" -> TryGreedy(pat, k, line, i, g, BlankRun(line, i), 1)
        [] OTHER -> TryLazy(pat, k, line, i, g)

\* a greedy repetition: the longest run first, down to lo
TryGreedy(pat, k, line, i, g, n, lo) ==
    IF n < lo THEN NoMatch
    ELSE With(MatchFrom(pat, k + 1, line, i + n, g),
              LAMBDA r : IF r.ok THEN r ELSE TryGreedy(pat, k, line, i, g, n - 1, lo))

\* a lazy repetition of any token: the shortest first
TryLazy(pat, k, line, j, g) ==
    IF j > Len(line) + 1 THEN NoMatch
    ELSE With(MatchFrom(pat, k + 1, line, j, g),
              LAMBDA r : IF r.ok THEN r ELSE TryLazy(pat, k, line, j + 1, g))

RECURSIVE SearchFrom(_, _, _)
SearchFrom(pat, line, i) ==
    IF i > Len(line) THEN NoMatch
    ELSE With(MatchFrom(pat, 1, line, i, <<>>),
              LAMBDA r : IF r.ok THEN r ELSE SearchFrom(pat, line, i + 1))

\* re.search(pattern, line_lower, re.IGNORECASE)
Search(pat, line) == With(pat, LAMBDA p : SearchFrom(p, line, 1))

----------------------------------------------------------------------------
(* extract_superslicer_time_from_gcode *)

\* the number of leading lines of a G-code file the extractor reads: the
\* read loop stops at the first line index above this one
HeaderLimit == 300

\* a G-code command line: no comment, no time
CommandLine == <<Tok("x")>>

\* A file on disk: size in bytes, and its text as lead command lines
\* followed by lines.
NoFile == [exists |-> FALSE, readable |-> FALSE, size |-> 0, lead |-> 0, lines |-> <<>>]
TextFile(size, lead, lines) ==
    [exists |-> TRUE, readable |-> TRUE, size |-> size, lead |-> lead, lines |-> lines]

LineCount(file) == file.lead + Len(file.lines)
\* line number i of the file, counted from 0 as enumerate does
FileLine(file, i) ==
    IF i < file.lead THEN CommandLine ELSE file.lines[i - file.lead + 1]

\* the read loop: for i, line in enumerate(f): if i > 300: break;
\* lines.append(line.strip())
ReadHeader(file) ==
    LET last == IF LineCount(file) - 1 > HeaderLimit THEN HeaderLimit
                ELSE LineCount(file) - 1
    IN [j \in 1..(last + 1) |-> Strip(FileLine(file, j - 1))]

\* the result of the extractor: (None, None) is found = FALSE; raised says
\* that an exception left the function
NotFound == [found |-> FALSE, raised |-> FALSE, time_str |-> <<>>, seconds |-> 0]
Raised == [found |-> FALSE, raised |-> TRUE, time_str |-> <<>>, seconds |-> 0]

\* the conversion with an hour counted as 60 seconds
ConvertHoursAsMinutes(groups) ==
    IF \E i \in 1..Len(groups) : groups[i].t = "D"
    THEN [err |-> TRUE, seconds |-> 0]
    ELSE [err |-> FALSE,
          seconds |->
            CASE Len(groups) = 1 -> groups[1].n
              [] Len(groups) = 2 -> groups[1].n * 60 + groups[2].n
              [] OTHER -> groups[1].n * 60 + groups[2].n * 60 + groups[3].n]

\* int() on each group, then the seconds by the number of groups;
\* err stands for the ValueError of int()
Convert(groups) ==
    IF \E i \in 1..Len(groups) : groups[i].t = "D"
    THEN [err |-> TRUE, seconds |-> 0]
    ELSE [err |-> FALSE,
          seconds |->
            CASE Len(groups) = 1 -> groups[1].n
              [] Len(groups) = 2 -> groups[1].n * 60 + groups[2].n
              [] OTHER -> groups[1].n * 3600 + groups[2].n * 60 + groups[3].n]

\* the display string with the minutes not reduced modulo the hour
FormatTimeAllMinutes(seconds) ==
    LET hours == seconds \div 3600
        mins == seconds \div 60
        secs == seconds % 60
    IN IF hours > 0
       THEN <<Num(hours), Tok("h"), WS, Num(mins), Tok("m"), WS, Num(secs), Tok("s")>>
       ELSE <<Num(mins), Tok("m"), WS, Num(secs), Tok("s")>>

\* the display string: "{hours}h {mins}m {secs}s", or "{mins}m {secs}s"
\* when hours is 0
FormatTime(seconds) ==
    LET hours == seconds \div 3600
        mins == (seconds % 3600) \div 60
        secs == seconds % 60
    IN IF hours > 0
       THEN <<Num(hours), Tok("h"), WS, Num(mins), Tok("m"), WS, Num(secs), Tok("s")>>
       ELSE <<Num(mins), Tok("m"), WS, Num(secs), Tok("s")>>

\* no except clause: the ValueError leaves the function
LetsValueErrorOut == FALSE

\* what the except clause around the conversion does with a ValueError:
\* TRUE is 'continue' with the next pattern
CatchesValueError == TRUE

\* the inner loop over time_patterns from pattern p on, for one line:
\* the first pattern that matches and converts decides; done = FALSE
\* means that the loop ended without a return
RECURSIVE ScanPatterns(_, _)
ScanPatterns(line_lower, p) ==
    IF p > Len(time_patterns) THEN [done |-> FALSE, res |-> NotFound]
    ELSE With(Search(time_patterns[p], line_lower), LAMBDA match :
         IF ~match.ok THEN ScanPatterns(line_lower, p + 1)
         ELSE With(Convert(match.g), LAMBDA c :
              IF c.err
              THEN IF CatchesValueError
                   THEN ScanPatterns(line_lower, p + 1)
                   ELSE [done |-> TRUE, res |-> Raised]
              ELSE [done |-> TRUE,
                    res |-> [found |-> TRUE, raised |-> FALSE,
                             time_str |-> FormatTime(c.seconds),
                             seconds |-> c.seconds]]))

\* the outer loop with a later line overriding an earlier one
ScanLinesLastWins(lines) ==
    With({ n \in 1..Len(lines) :
             /\ StartsWithSemi(lines[n])
             /\ ScanPatterns(Lower(lines[n]), 1).done }, LAMBDA returning :
      IF returning = {} THEN NotFound
      ELSE With(CHOOSE n \in returning : \A m \in returning : n >= m, LAMBDA last :
                ScanPatterns(Lower(lines[last]), 1).res))

\* the outer loop over the lines read: lines that do not start with ';'
\* are passed over, and the first line whose pattern loop returns decides
ScanLines(lines) ==
    With({ n \in 1..Len(lines) :
             /\ StartsWithSemi(lines[n])
             /\ ScanPatterns(Lower(lines[n]), 1).done }, LAMBDA returning :
      IF returning = {} THEN NotFound
      ELSE With(CHOOSE n \in returning : \A m \in returning : n <= m, LAMBDA first :
                ScanPatterns(Lower(lines[first]), 1).res))

extract_superslicer_time_from_gcode(file) ==
    IF ~file.exists THEN NotFound
    ELSE IF ~file.readable THEN NotFound
    ELSE With(ReadHeader(file), LAMBDA lines : ScanLines(lines))


----------------------------------------------------------------------------
(* The lines and files the extractor is run on *)

\* the longest text, in lines, of a file made of probe lines
MaxLines == 2

Words(ws) == [i \in 1..(2 * Len(ws) - 1) |->
                IF i % 2 = 1 THEN Tok(ws[(i + 1) \div 2]) ELSE WS]

Markers == { <<Tok(";"), WS>>, <<Tok(";")>>, <<>> }
Labels ==
    { Words(<<"estimated", "printing", "time">>),
      Words(<<"print", "time">>),
      Words(<<"total", "print", "time">>),
      Words(<<"printing", "time">>),
      <<Tok("TIME")>>, <<Tok("time")>>, <<>> }
\* text between the label and the separator, as in "(normal mode)"
Mids == { <<>>, <<WS, Tok("x")>> }
Separators == { <<WS, Tok("="), WS>>, <<Tok(":"), WS>>, <<Tok(":")>>, <<WS>> }

HmsExpr(h, m, s) ==
    <<h, Tok("h"), WS, m, Tok("m"), WS, s, Tok("s")>>
MsExpr(m, s) == <<m, Tok("m"), WS, s, Tok("s")>>
TripleExpr(a, b, c) == <<a, Tok(":"), b, Tok(":"), c>>
PairExpr(a, b) == <<a, Tok(":"), b>>

HourVals == {0, 3, 13}
MinVals == {0, 54, 75}
SecVals == {0, 52}

TimeExprs ==
    { HmsExpr(Num(h), Num(m), Num(s)) : h \in HourVals, m \in MinVals, s \in SecVals }
    \cup { HmsExpr(BigNum, Num(1), Num(2)), HmsExpr(Num(1), Num(2), BigNum) }
    \cup { <<Num(1), Tok("H"), Num(2), Tok("M"), Num(3), Tok("S")>> }
    \cup { MsExpr(Num(m), Num(s)) : m \in MinVals, s \in SecVals }
    \cup { MsExpr(BigNum, Num(2)) }
    \cup { TripleExpr(Num(1), Num(23), Num(45)), TripleExpr(Num(0), Num(0), Num(0)),
           TripleExpr(Num(1), BigNum, Num(45)) }
    \cup { PairExpr(Num(a), Num(30)) : a \in {1, 12, 13, 15} }
    \cup { <<Num(n)>> : n \in {0, 75, 14092} }
    \cup { <<BigNum>>, <<>> }

LineSet ==
    { mk \o lb \o md \o sp \o ex :
        mk \in Markers, lb \in Labels, md \in Mids, sp \in Separators, ex \in TimeExprs }

\* a line that two patterns match: the first with '=' and h-m-s (14092
\* seconds), the fifth with ':' and m-s (303 seconds)
TwoPatternLine ==
    Words(<<";", "estimated", "printing", "time">>)
       \o <<WS, Tok("="), WS>> \o HmsExpr(Num(3), Num(54), Num(52))
       \o <<WS, Tok(":"), WS>> \o MsExpr(Num(5), Num(3))

\* the lines tried in every order and behind every lead
ProbeLines ==
    { CommandLine,
      <<Tok(";"), WS, Tok("x")>>,
      <<WS, Tok(";"), Tok("TIME"), Tok(":"), Num(75), WS>>,
      <<Tok(";"), Tok("TIME"), Tok(":"), BigNum>>,
      Words(<<";", "estimated", "printing", "time">>)
         \o <<WS, Tok("="), WS>> \o HmsExpr(Num(3), Num(54), Num(52)),
      Words(<<";", "estimated", "printing", "time">>)
         \o <<Tok(":"), WS>> \o HmsExpr(BigNum, Num(0), Num(7)),
      Words(<<";", "estimated", "printing", "time">>)
         \o <<Tok(":"), WS>> \o HmsExpr(BigNum, Num(0), Num(7))
         \o <<WS, Tok(":"), WS>> \o MsExpr(Num(5), Num(3)),
      Words(<<";", "printing", "time">>) \o <<WS>>
         \o TripleExpr(Num(1), Num(23), Num(45)),
      TwoPatternLine }

SeqsUpTo(S, n) == UNION { [1..k -> S] : k \in 0..n }

\* the line counts before the text: none, and around the read limit
Leads == {0, HeaderLimit - 1, HeaderLimit, HeaderLimit + 1}

GcodeFiles ==
    { TextFile(2000, 0, <<l>>) : l \in LineSet }
    \cup { TextFile(2000, lead, ls) : lead \in Leads, ls \in SeqsUpTo(ProbeLines, MaxLines) }
    \cup { NoFile, [TextFile(2000, 0, <<>>) EXCEPT !.readable = FALSE] }


----------------------------------------------------------------------------
(* Money and the heuristic estimator *)

\* round(x, 2) of the exact quotient num / den, in cents when num / den is
\* in cents: to the nearest integer, a tie to the even one. The code rounds
\* a binary float, which can fall to the other side where the exact
\* quotient is a tie or a whole number of seconds; on the durations and
\* the form values used here the two give the same figures.
RoundDiv(num, den) ==
    LET q == num \div den
        r == num % den
    IN IF 2 * r > den THEN q + 1
       ELSE IF 2 * r < den THEN q
       ELSE q + (q % 2)

\* hours = time_seconds / 3600; round(hours * COST_PER_HOUR, 2), in cents,
\* at an hourly rate in cents
CostOfSeconds(time_seconds, rate) ==
    LET q == time_seconds \div 3600
        r == time_seconds % 3600
    IN q * rate + RoundDiv(r * rate, 3600)

\* max(0.5, min(3.0, file_size_kb / 100)), in hundredths
SizeFactor100(size_kb) ==
    IF size_kb < 50 THEN 50 ELSE IF size_kb > 300 THEN 300 ELSE size_kb

\* 1 + ((wall_thickness - 0.4) / 0.4 * 0.3), in fortieths, of a wall
\* thickness in tenths of a millimetre
WallFactor40(wall10) == 40 + 3 * (wall10 - 4)

\* 1 + (infill / 100 * 0.8), in 125ths
InfillFactor125(infill) == 125 + infill

\* total_hours = 1.5 * size_factor * infill_factor * wall_factor as the
\* fraction TotalNum / TotalDen
TotalNum(infill, wall10, size_kb) ==
    3 * SizeFactor100(size_kb) * InfillFactor125(infill) * WallFactor40(wall10)
TotalDen == 2 * 100 * 125 * 40

\* calculate_demo_estimate: the time string and the cost in cents;
\* size_kb < 0 stands for a file whose size cannot be read (size_factor 1.0)
calculate_demo_estimate(infill, wall10, size_kb, rate) ==
    LET num == TotalNum(infill, wall10, IF size_kb < 0 THEN 100 ELSE size_kb)
        hours == num \div TotalDen
        frac == num % TotalDen
        minutes == (frac * 60) \div TotalDen
        seconds == (((frac * 60) % TotalDen) * 60) \div TotalDen
    IN [time_str |->
          IF hours > 0
          THEN <<Num(hours), Tok("h"), WS, Num(minutes), Tok("m"), WS,
                 Num(seconds), Tok("s")>>
          ELSE <<Num(minutes), Tok("m"), WS, Num(seconds), Tok("s")>>,
        cost |-> hours * rate + RoundDiv(frac * rate, TotalDen)]


----------------------------------------------------------------------------
(* The web application: state *)

VARIABLES
    SUPERSLICER_PATH,   \* TRUE when find_superslicer() found the executable
    COST_PER_HOUR,      \* the hourly rate, in cents
    profile,            \* TRUE when the file PROFILE_PATH exists
    uploads,            \* UPLOAD_FOLDER: file name -> size in KB, -1 when absent
    outputs,            \* OUTPUT_FOLDER: base name -> the G-code file of that name
    queue,              \* the orders of output/print_queue.json
    resp,               \* what the last request was answered with
    gcode,              \* the file handed to the extractor run on its own
    extracted,          \* the extractor's result for gcode
    refed,              \* the extractor's result for its own display string
    pc,                 \* the position of the extractor run
    queue_file,         \* QUEUE_FILE as concurrent add_to_queue calls see it
    calls,              \* per request thread: its add_to_queue call
    submitted,          \* the number of add_to_queue calls begun
    completed,          \* the orders whose add_to_queue call has returned
    earlier             \* order -> the orders completed before its call began

vars == <<SUPERSLICER_PATH, COST_PER_HOUR, profile, uploads, outputs, queue, resp,
          gcode, extracted, refed, pc,
          queue_file, calls, submitted, completed, earlier>>
appVars == <<SUPERSLICER_PATH, COST_PER_HOUR, profile, uploads, outputs, queue, resp>>
runVars == <<gcode, extracted, refed, pc>>
queueVars == <<queue_file, calls, submitted, completed, earlier>>

\* the longest queue the model lets orders build
MaxQueue == 1

\* os.path.getsize(output_file) > 100
MinGcodeSize == 100

ALLOWED_EXTENSIONS == {"stl", "3mf", "obj"}

\* a file name: what is before the last dot, whether there is a dot, and
\* what follows it
FileName(base, ext) == [base |-> base, dot |-> TRUE, ext |-> ext]
NoDotName(base) == [base |-> base, dot |-> FALSE, ext |-> ""]
EmptyName == NoDotName("")

\* str.lower() on an extension
LowerExt(ext) ==
    CASE ext = "STL" -> "stl"
      [] ext = "OBJ" -> "obj"
      [] ext = "TXT" -> "txt"
      [] OTHER -> ext

allowed_file(filename) ==
    filename.dot /\ LowerExt(filename.ext) \in ALLOWED_EXTENSIONS

\* a form field: absent, or a text that parses as a number or does not
Absent == [given |-> FALSE, parses |-> FALSE, v |-> 0]
Garbage == [given |-> TRUE, parses |-> FALSE, v |-> 0]
Value(v) == [given |-> TRUE, parses |-> TRUE, v |-> v]

\* the conversion of a form field with a text that does not parse taken
\* as the default
FieldOrDefaultOnGarbage(field, default) ==
    IF ~field.given \/ ~field.parses THEN [err |-> FALSE, v |-> default]
    ELSE [err |-> FALSE, v |-> field.v]

\* int(request.form.get("infill", 20)) and
\* float(request.form.get("wall_thickness", 0.8)), the latter in tenths
FieldOr(field, default) ==
    IF ~field.given THEN [err |-> FALSE, v |-> default]
    ELSE IF ~field.parses THEN [err |-> TRUE, v |-> 0]
    ELSE [err |-> FALSE, v |-> field.v]

----------------------------------------------------------------------------
(* run_superslicer_slicing *)

\* what the slicer process did: how it ended, and whether it wrote (or
\* wrote over) the output file before it ended
SlicerEnds == {"exit0", "exit1", "timeout", "oserror"}

\* create_superslicer_profile: TRUE when the profile exists afterwards
ProfileAfter(prof, write_ok) == prof \/ write_ok

\* the output folder after the slicer process, which writes env.written
\* (a file, or "keep" for nothing) to the output path
OutputsAfter(outs, base, env) ==
    IF env.written.exists THEN [outs EXCEPT ![base] = env.written] ELSE outs

\* the test that decides success after the process ended by itself
GcodeCreated(file) == file.exists /\ file.size > MinGcodeSize

\* the result (success, ...) given the output folder after the run
run_superslicer_slicing(path, prof_ok, outs_after, base, env) ==
    IF ~path THEN FALSE
    ELSE IF ~prof_ok THEN FALSE
    ELSE IF env.ends = "timeout" THEN FALSE
    ELSE IF env.ends = "oserror" THEN FALSE
    ELSE GcodeCreated(outs_after[base])


----------------------------------------------------------------------------
(* index(): one request *)

NoTime == <<>>
NoCost == -1

\* the answer to a request; the fields from ends on record the path the
\* handler took: how the slicer process ended ("none": not started),
\* what run_superslicer_slicing returned, whether the extractor was called
\* and what it returned, and where print_time and cost came from
NoResp ==
    [kind |-> "none", filename |-> EmptyName, infill |-> 0, wall |-> 0,
     print_time |-> NoTime, cost |-> NoCost, is_estimate |-> FALSE,
     actual_gcode |-> FALSE, gcode_path |-> "", ordered |-> FALSE, listed |-> 0,
     ends |-> "none", success |-> FALSE, scanned |-> FALSE, ext |-> NotFound,
     figures |-> "none"]

Redirect == [NoResp EXCEPT !.kind = "redirect"]
IndexPage == [NoResp EXCEPT !.kind = "index"]

\* order_data, as add_to_queue stores it
OrderOf(r) ==
    [file |-> r.filename, infill |-> r.infill, wall_thickness |-> r.wall,
     time |-> r.print_time, cost |-> r.cost, is_estimate |-> r.is_estimate,
     actual_gcode |-> r.actual_gcode, gcode_path |-> r.gcode_path]

\* queue_utils.add_to_queue: read the file, append, write the file
add_to_queue(q, order) == Append(q, order)

\* queue_utils.get_queue
get_queue(q) == q

\* if print_time and time_seconds: both are truthy
ExtractedIsUsed(ext) == ext.found /\ ext.time_str # <<>> /\ ext.seconds # 0

\* the fallback with the flag left at its initial value
ByDemoFlagNotSet(demo) ==
    [print_time |-> demo.time_str, cost |-> demo.cost, is_estimate |-> FALSE,
     figures |-> "demo"]

\* print_time, cost = calculate_demo_estimate(...); is_demo = True
ByDemo(demo) ==
    [print_time |-> demo.time_str, cost |-> demo.cost, is_estimate |-> TRUE,
     figures |-> "demo"]

\* the estimate part of index(), after the upload was saved: the figures
\* and flags of the answer
Estimate(path, rate, success, outs_after, base, infill, wall10, size_kb, ends) ==
    With(calculate_demo_estimate(infill, wall10, size_kb, rate), LAMBDA demo :
    With(ByDemo(demo), LAMBDA byDemo :
      IF ~path
      THEN byDemo @@ [actual_gcode |-> FALSE, ends |-> "none", success |-> FALSE,
                      scanned |-> FALSE, ext |-> NotFound]
      ELSE IF success
      THEN With(extract_superslicer_time_from_gcode(outs_after[base]), LAMBDA ext :
           (IF ExtractedIsUsed(ext)
            THEN [print_time |-> ext.time_str,
                  cost |-> CostOfSeconds(ext.seconds, rate),
                  is_estimate |-> FALSE, figures |-> "gcode"]
            ELSE byDemo)
           @@ [actual_gcode |-> TRUE, ends |-> ends, success |-> TRUE,
               scanned |-> TRUE, ext |-> ext])
      ELSE byDemo @@ [actual_gcode |-> FALSE, ends |-> ends, success |-> FALSE,
                      scanned |-> FALSE, ext |-> NotFound]))

\* the call of run_superslicer_slicing in index(): the profile and the
\* output folder after it, whether the slicer process was started, and the
\* success it returns
Sliced(req, env) ==
    LET prof == IF SUPERSLICER_PATH
                THEN ProfileAfter(profile, env.profile_write_ok)
                ELSE profile
        started == SUPERSLICER_PATH /\ prof
    IN With(IF started THEN OutputsAfter(outputs, req.filename.base, env) ELSE outputs,
            LAMBDA outs :
              [profile |-> prof, outputs |-> outs,
               ends |-> IF started THEN env.ends ELSE "none",
               success |-> run_superslicer_slicing(SUPERSLICER_PATH, prof, outs,
                                                   req.filename.base, env)])

\* index() for a POST request req in environment env: the state after,
\* and the answer
index(req, env) ==
    LET same == [profile |-> profile, uploads |-> uploads, outputs |-> outputs,
                 queue |-> queue]
        infill == FieldOr(req.infill, 20)
        wall == FieldOr(req.wall_thickness, 8)
    IN IF ~req.has_file THEN same @@ [resp |-> Redirect]
       ELSE IF req.filename = EmptyName THEN same @@ [resp |-> Redirect]
       ELSE IF ~allowed_file(req.filename) THEN same @@ [resp |-> Redirect]
       ELSE IF infill.err \/ wall.err THEN same @@ [resp |-> Redirect]
       ELSE IF ~(0 <= infill.v /\ infill.v <= 99) THEN same @@ [resp |-> Redirect]
       ELSE IF ~(1 <= wall.v /\ wall.v <= 100) THEN same @@ [resp |-> Redirect]
       ELSE
         With([uploads EXCEPT ![req.filename] = req.size_kb], LAMBDA saved :
         With(Sliced(req, env), LAMBDA sl :
         With(Estimate(SUPERSLICER_PATH, COST_PER_HOUR, sl.success, sl.outputs,
                       req.filename.base, infill.v, wall.v, saved[req.filename],
                       sl.ends), LAMBDA est :
         With(est @@ [kind |-> "results", filename |-> req.filename,
                      infill |-> infill.v, wall |-> wall.v,
                      gcode_path |-> IF est.actual_gcode THEN req.filename.base ELSE "",
                      ordered |-> FALSE, listed |-> 0], LAMBDA page :
         With([profile |-> sl.profile, uploads |-> saved, outputs |-> sl.outputs],
              LAMBDA files :
           IF req.order_attempt /\ req.customer_name /\ req.customer_email
              /\ env.queue_write_ok
           THEN files @@ [queue |-> add_to_queue(queue, OrderOf(page)),
                          resp |-> [page EXCEPT !.kind = "order_success",
                                                !.ordered = TRUE]]
           ELSE files @@ [queue |-> queue, resp |-> page])))))

----------------------------------------------------------------------------
(* Requests and the environment of a request *)

StlName == FileName("part", "stl")
ObjName == FileName("part", "OBJ")
UploadNames == {StlName, ObjName}
BadNames == {EmptyName, NoDotName("part"), FileName("part", "txt"),
             FileName("part", "gcode")}

InfillFields == {Absent, Garbage, Value(-1), Value(0), Value(99), Value(100)}
WallFields == {Absent, Garbage, Value(0), Value(1), Value(3), Value(100), Value(101)}

Req(has_file, filename, size_kb, infill, wall, name, email, order) ==
    [has_file |-> has_file, filename |-> filename, size_kb |-> size_kb,
     infill |-> infill, wall_thickness |-> wall, customer_name |-> name,
     customer_email |-> email, order_attempt |-> order]

Requests ==
    { Req(FALSE, EmptyName, 0, Absent, Absent, FALSE, FALSE, FALSE) }
    \cup { Req(TRUE, f, 150, Absent, Absent, FALSE, FALSE, FALSE) : f \in BadNames }
    \cup { Req(TRUE, StlName, 150, i, Absent, FALSE, FALSE, FALSE) : i \in InfillFields }
    \cup { Req(TRUE, StlName, 150, Absent, w, FALSE, FALSE, FALSE) : w \in WallFields }
    \cup { Req(TRUE, ObjName, 20, Absent, Absent, FALSE, FALSE, FALSE) }
    \cup { Req(TRUE, StlName, 150, Absent, Absent, n, e, TRUE) : n, e \in BOOLEAN }
    \cup { Req(TRUE, StlName, 150, Value(100), Absent, TRUE, TRUE, TRUE),
           Req(TRUE, FileName("part", "txt"), 150, Absent, Absent, TRUE, TRUE, TRUE) }

\* the header line SuperSlicer writes
HeaderLine ==
    Words(<<";", "estimated", "printing", "time">>) \o <<WS, Tok("x")>>
       \o <<WS, Tok("="), WS>> \o HmsExpr(Num(3), Num(54), Num(52))

\* a G-code file cut short: not above the size that counts as created
CutShort == TextFile(60, 0, <<<<Tok(";"), Tok("TIME"), Tok(":"), Num(75)>>>>)

\* what a slicer run that exits with status 0 may leave at the output path:
\* a sliced file with the header line, one that states zero seconds, one
\* with no time comment, and one cut short
SlicedFiles ==
    { TextFile(2000, 0, <<CommandLine, HeaderLine>>),
      TextFile(2000, 0, <<<<Tok(";"), Tok("TIME"), Tok(":"), Num(0)>>>>),
      TextFile(2000, 0, <<<<Tok(";"), WS, Tok("x")>>, CommandLine>>),
      CutShort }

\* what the run writes to the output path, by the way it ends (NoFile:
\* nothing, what was there stays); a run that fails is taken to write
\* nothing or a file cut short, never a whole file
WrittenBy(ends) ==
    IF ends = "exit0" THEN SlicedFiles \cup {NoFile} ELSE {NoFile, CutShort}

Env(ends, written, profile_write_ok, queue_write_ok) ==
    [ends |-> ends, written |-> written, profile_write_ok |-> profile_write_ok,
     queue_write_ok |-> queue_write_ok]

\* the request passes the validation of index()
Accepted(req) ==
    /\ req.has_file /\ allowed_file(req.filename)
    /\ ~FieldOr(req.infill, 20).err /\ ~FieldOr(req.wall_thickness, 8).err
    /\ FieldOr(req.infill, 20).v \in 0..99
    /\ FieldOr(req.wall_thickness, 8).v \in 1..100

WouldOrder(req) ==
    Accepted(req) /\ req.order_attempt /\ req.customer_name /\ req.customer_email

\* the environments that differ for the request: nothing of the
\* environment is looked at unless the request is accepted, the slicer
\* only runs when it was found, the profile is only written when it is
\* missing, and the queue only when an order is placed
EnvsFor(req) ==
    { e \in
      { Env(x, w, p, q) :
        x \in IF Accepted(req) /\ SUPERSLICER_PATH THEN SlicerEnds ELSE {"exit0"},
        w \in IF Accepted(req) /\ SUPERSLICER_PATH THEN SlicedFiles \cup {NoFile}
              ELSE {NoFile},
        p \in IF Accepted(req) /\ SUPERSLICER_PATH /\ ~profile THEN BOOLEAN ELSE {TRUE},
        q \in IF WouldOrder(req) THEN BOOLEAN ELSE {TRUE} } :
      e.written \in WrittenBy(e.ends) }

----------------------------------------------------------------------------
(* The web application: one action per route *)

Rates == {300}

\* the request threads that may be inside add_to_queue at the same time
Threads == {1, 2}
\* the number of add_to_queue calls in a run
MaxOrders == 3

\* QUEUE_FILE on disk: absent, the JSON text of a list of orders, or a
\* text json.load refuses (empty after open(..., "w"), or the bytes of two
\* writers mixed)
AbsentFile == [kind |-> "absent", orders |-> <<>>]
JsonFile(q) == [kind |-> "json", orders |-> q]
BadFile == [kind |-> "bad", orders |-> <<>>]

\* the list read from QUEUE_FILE by add_to_queue and get_queue: [] when
\* the file does not exist or json.load raises
LoadQueue(file) == IF file.kind = "json" THEN file.orders ELSE <<>>

\* a thread that is not inside add_to_queue
NoCall == [at |-> "idle", queue |-> <<>>, order |-> 0, raced |-> FALSE]

QueueAtRest ==
    /\ queue_file = AbsentFile
    /\ calls = [t \in Threads |-> NoCall]
    /\ submitted = 0
    /\ completed = {}
    /\ earlier = [k \in 1..MaxOrders |-> {}]

NotFed == [line |-> <<>>, res |-> NotFound]

IdleRun == gcode = NoFile /\ extracted = NotFound /\ refed = NotFed /\ pc = "idle"

Init ==
    /\ SUPERSLICER_PATH \in BOOLEAN
    /\ COST_PER_HOUR \in Rates
    /\ profile = FALSE
    /\ uploads = [f \in UploadNames |-> -1]
    /\ outputs = [b \in {"part"} |-> NoFile]
    /\ queue = <<>>
    /\ resp = NoResp
    /\ IdleRun
    /\ QueueAtRest

\* GET /
Get ==
    /\ resp' = IndexPage
    /\ UNCHANGED <<SUPERSLICER_PATH, COST_PER_HOUR, profile, uploads, outputs, queue>>
    /\ UNCHANGED runVars
    /\ UNCHANGED queueVars

\* POST /
Post ==
    \E req \in Requests :
      /\ WouldOrder(req) => Len(queue) < MaxQueue
      /\ \E env \in EnvsFor(req) :
           \E out \in {index(req, env)} :
             /\ profile' = out.profile
             /\ uploads' = out.uploads
             /\ outputs' = out.outputs
             /\ queue' = out.queue
             /\ resp' = out.resp
      /\ UNCHANGED <<SUPERSLICER_PATH, COST_PER_HOUR>>
      /\ UNCHANGED runVars
      /\ UNCHANGED queueVars

\* GET /queue and GET /admin
ViewQueue ==
    /\ resp' = [NoResp EXCEPT !.kind = "queue", !.listed = Len(get_queue(queue))]
    /\ UNCHANGED <<SUPERSLICER_PATH, COST_PER_HOUR, profile, uploads, outputs, queue>>
    /\ UNCHANGED runVars
    /\ UNCHANGED queueVars

Next == Get \/ Post \/ ViewQueue

Spec == Init /\ [][Next]_vars


----------------------------------------------------------------------------
(* The extractor run on its own: on every file of GcodeFiles, and then on
   its own display string *)

\* what the display string is put behind when it is fed back: nothing, and
\* the comment label of a G-code header
RefeedPrefixes ==
    { <<>>, Words(<<";", "estimated", "printing", "time">>) \o <<Tok(":"), WS>> }

AppAtRest ==
    /\ SUPERSLICER_PATH = FALSE
    /\ COST_PER_HOUR \in Rates
    /\ profile = FALSE
    /\ uploads = [f \in UploadNames |-> -1]
    /\ outputs = [b \in {"part"} |-> NoFile]
    /\ queue = <<>>
    /\ resp = NoResp

InitExtract ==
    /\ AppAtRest
    /\ gcode \in GcodeFiles
    /\ extracted = NotFound
    /\ refed = NotFed
    /\ pc = "start"
    /\ QueueAtRest

ExtractRun ==
    /\ pc = "start"
    /\ extracted' = extract_superslicer_time_from_gcode(gcode)
    /\ pc' = "extracted"
    /\ UNCHANGED <<gcode, refed>>
    /\ UNCHANGED appVars
    /\ UNCHANGED queueVars

Refeed ==
    /\ pc = "extracted"
    /\ extracted.found
    /\ \E prefix \in RefeedPrefixes :
         \E line \in {prefix \o extracted.time_str} :
           refed' = [line |-> line,
                     res |-> extract_superslicer_time_from_gcode(
                                 TextFile(2000, 0, <<line>>))]
    /\ pc' = "refed"
    /\ UNCHANGED <<gcode, extracted>>
    /\ UNCHANGED appVars
    /\ UNCHANGED queueVars

NextExtract == ExtractRun \/ Refeed

SpecExtract == InitExtract /\ [][NextExtract]_vars

----------------------------------------------------------------------------
(* add_to_queue called by concurrent order requests, step by step: the
   server answers each request on a thread of its own and queue_utils takes
   no lock *)

InitQueue ==
    /\ AppAtRest
    /\ IdleRun
    /\ QueueAtRest

\* index() of an order request reaches add_to_queue(order_data); the order
\* is named by its number in the sequence of submissions
Call(t) ==
    /\ calls[t].at = "idle"
    /\ submitted < MaxOrders
    /\ submitted' = submitted + 1
    /\ calls' = [calls EXCEPT ![t] = [at |-> "read", queue |-> <<>>,
                                      order |-> submitted + 1, raced |-> FALSE]]
    /\ earlier' = [earlier EXCEPT ![submitted + 1] = completed]
    /\ UNCHANGED <<queue_file, completed>>
    /\ UNCHANGED appVars
    /\ UNCHANGED runVars

\* queue = json.load(f), or [] when the file is absent or does not parse;
\* queue.append(order)
ReadAndAppend(t) ==
    /\ calls[t].at = "read"
    /\ calls' = [calls EXCEPT ![t].queue = Append(LoadQueue(queue_file), calls[t].order),
                              ![t].at = "open"]
    /\ UNCHANGED <<queue_file, submitted, completed, earlier>>
    /\ UNCHANGED appVars
    /\ UNCHANGED runVars

\* open(QUEUE_FILE, "w"): the file is created or cut to length 0
OpenForWrite(t) ==
    /\ calls[t].at = "open"
    /\ queue_file' = BadFile
    /\ calls' = [calls EXCEPT ![t].at = "dump", ![t].raced = FALSE]
    /\ UNCHANGED <<submitted, completed, earlier>>
    /\ UNCHANGED appVars
    /\ UNCHANGED runVars

\* json.dump(queue, f, indent=2) and the close of the file: the text is
\* written from offset 0. When another thread has written since this one
\* opened the file, the text lands on top of the other's: the file holds
\* this thread's list when its text is at least as long, and a mix that
\* json.load refuses when it is shorter. The call returns.
Dump(t) ==
    /\ calls[t].at = "dump"
    /\ queue_file' \in IF calls[t].raced
                        THEN {JsonFile(calls[t].queue), BadFile}
                        ELSE {JsonFile(calls[t].queue)}
    /\ calls' = [u \in Threads |->
                   IF u = t THEN NoCall
                   ELSE IF calls[u].at = "dump" THEN [calls[u] EXCEPT !.raced = TRUE]
                   ELSE calls[u]]
    /\ completed' = completed \cup {calls[t].order}
    /\ UNCHANGED <<submitted, earlier>>
    /\ UNCHANGED appVars
    /\ UNCHANGED runVars

NextQueue ==
    \E t \in Threads : Call(t) \/ ReadAndAppend(t) \/ OpenForWrite(t) \/ Dump(t)

SpecQueue == InitQueue /\ [][NextQueue]_vars


----------------------------------------------------------------------------
(* Claims about index(), checked under Spec *)

\* the last request was a POST that passed the validation
Answered == resp.kind \in {"results", "order_success"}

\* C1: a slicer run that times out or exits with a non-zero status is
\* treated as 'no authoritative duration available': run_superslicer_slicing
\* reports failure, and index() reports the figures of
\* calculate_demo_estimate with is_estimate true and actual_gcode false.
C1_FailedRunGivesEstimate ==
    (Answered /\ resp.ends \in {"timeout", "exit1"})
       => /\ ~resp.success
          /\ resp.figures = "demo"
          /\ resp.is_estimate
          /\ ~resp.actual_gcode

\* C2: calculate_demo_estimate is used only when the slicer is unavailable,
\* the slicer run fails or the extractor reports not found; whenever the
\* extractor returns a Duration >= 0, 0 included, the reported time and cost
\* are derived from it and is_estimate is false.
C2_EstimateOnlyAsFallback ==
    Answered =>
       /\ resp.figures = "demo"
             => (~SUPERSLICER_PATH \/ ~resp.success \/ ~resp.ext.found)
       /\ (resp.scanned /\ resp.ext.found /\ resp.ext.seconds >= 0)
             => /\ resp.figures = "gcode"
                /\ resp.print_time = resp.ext.time_str
                /\ resp.cost = CostOfSeconds(resp.ext.seconds, COST_PER_HOUR)
                /\ ~resp.is_estimate

\* C3: every POST that passes the validation ends with a print_time and a
\* cost that are not None; is_estimate, on the page and in the stored order,
\* is true exactly when the figures came from calculate_demo_estimate and
\* false exactly when they came from a duration extracted from the G-code;
\* actual_gcode is true only if the slicer run was reported successful.
C3_FiguresAndFlags ==
    Answered =>
       /\ resp.print_time # NoTime
       /\ resp.cost # NoCost
       /\ resp.is_estimate <=> resp.figures = "demo"
       /\ ~resp.is_estimate <=> resp.figures = "gcode"
       /\ resp.figures = "gcode"
             => (resp.scanned /\ resp.ext.found /\ resp.print_time = resp.ext.time_str)
       /\ resp.actual_gcode => resp.success
       /\ resp.ordered
             => /\ queue # <<>>
                /\ queue[Len(queue)].is_estimate = resp.is_estimate
                /\ queue[Len(queue)].actual_gcode = resp.actual_gcode
                /\ queue[Len(queue)].time = resp.print_time
                /\ queue[Len(queue)].cost = resp.cost

\* C3's case: an order placed for a file that was sliced but whose time
\* could not be extracted, so that both flags are set
C3_Witness ==
    /\ resp.kind = "order_success"
    /\ resp.actual_gcode
    /\ resp.is_estimate
    /\ Len(queue) = 1

\* C10: the cost reported for an extracted Duration of s seconds at hourly
\* rate r is round((s / 3600) * r, 2); 3600 seconds at 3.0 give 3.00 and
\* 5400 seconds 4.50; the cost is not negative.
C10_CostOfExtractedDuration ==
    /\ CostOfSeconds(3600, 300) = 300
    /\ CostOfSeconds(5400, 300) = 450
    /\ (Answered /\ resp.scanned /\ resp.ext.found)
          => /\ resp.cost = CostOfSeconds(resp.ext.seconds, COST_PER_HOUR)
             /\ resp.cost >= 0

\* C11: the heuristic estimator's wall factor is 1 + max(0, (wall_thickness
\* - 0.4) / 0.4 * 0.3): for every accepted wall thickness it is at least 1,
\* and a wall thickness below 0.4 mm gives the same time and cost as 0.4 mm.
C11_WallFactorAtLeastOne ==
    (Answered /\ resp.figures = "demo")
       => /\ WallFactor40(resp.wall) >= 40
          /\ resp.wall < 4
                => /\ resp.print_time =
                        calculate_demo_estimate(resp.infill, 4, uploads[resp.filename],
                                                COST_PER_HOUR).time_str
                   /\ resp.cost =
                        calculate_demo_estimate(resp.infill, 4, uploads[resp.filename],
                                                COST_PER_HOUR).cost

\* a request that the claim C13 names: the file is absent or its name has
\* no extension among stl, 3mf and obj, a numeric field does not parse, the
\* infill is outside 0..99 or the wall thickness outside 0.1..10.0 mm
InvalidRequest(req) ==
    \/ ~req.has_file
    \/ ~req.filename.dot
    \/ LowerExt(req.filename.ext) \notin {"stl", "3mf", "obj"}
    \/ req.infill.given /\ ~req.infill.parses
    \/ req.wall_thickness.given /\ ~req.wall_thickness.parses
    \/ req.infill.given /\ req.infill.parses /\ req.infill.v \notin 0..99
    \/ req.wall_thickness.given /\ req.wall_thickness.parses
          /\ req.wall_thickness.v \notin 1..100

\* in the present state index() answers every invalid request with a
\* redirect and leaves the profile, the uploads, the output folder and the
\* queue as they are: no slicer run, no extraction, no estimate
RejectsInvalid ==
    \A req \in Requests :
       InvalidRequest(req)
          => \A env \in EnvsFor(req) :
                index(req, env) = [profile |-> profile, uploads |-> uploads,
                                   outputs |-> outputs, queue |-> queue,
                                   resp |-> Redirect]

\* a step that ends in a redirect changes nothing on disk
RedirectChangesNothing ==
    resp'.kind = "redirect" => UNCHANGED <<profile, uploads, outputs, queue>>

\* C13: a POST whose infill is outside 0..99, whose wall thickness is
\* outside 0.1..10.0, whose numeric fields do not parse or whose file is
\* absent or has an extension other than stl/3mf/obj is rejected with a
\* redirect before any effect: no upload is saved, the slicer is not run,
\* no estimate is computed and the order queue is unchanged.
C13_RejectedBeforeAnyEffect ==
    []RejectsInvalid /\ [][RedirectChangesNothing]_vars

\* C13's case: a request was rejected after an earlier one had saved an
\* upload, left a G-code file and placed an order, all of which are still
\* there
C13_Witness ==
    /\ resp = Redirect
    /\ uploads[StlName] = 150
    /\ outputs["part"].exists
    /\ Len(queue) = 1


----------------------------------------------------------------------------
(* Claims about the extractor, checked under SpecExtract *)

\* the file whose only line is l
OneLine(l) == TextFile(2000, 0, <<l>>)
\* the extractor has run on gcode
Ran == pc \in {"extracted", "refed"}

CommentMarkers == { <<Tok(";"), WS>>, <<Tok(";")>> }
LabelEstimated == Words(<<"estimated", "printing", "time">>)
LabelPrint == Words(<<"print", "time">>)
LabelTotal == Words(<<"total", "print", "time">>)
LabelPrinting == Words(<<"printing", "time">>)
Colons == { <<Tok(":"), WS>>, <<Tok(":")>> }

\* the label and separator pairs behind which the h-m-s form is accepted
HmsForms ==
    ({LabelEstimated} \X ({ <<WS, Tok("="), WS>> } \cup Colons))
    \cup ({LabelPrint, LabelTotal} \X Colons)

Hms == HourVals \X MinVals \X SecVals
HmsOf(t) == HmsExpr(Num(t[1]), Num(t[2]), Num(t[3]))
HmsSeconds(t) == t[1] * 3600 + t[2] * 60 + t[3]

\* the lines '; estimated printing time (...) = <h>h <m>m <s>s', each with
\* the seconds it states
HeaderLines ==
    { << <<Tok(";"), WS>> \o LabelEstimated \o md \o <<WS, Tok("="), WS>> \o HmsOf(t),
         HmsSeconds(t) >> : md \in Mids, t \in Hms }

\* C4: the header line '; estimated printing time (normal mode) = 3h 54m 52s'
\* yields 14092 seconds, the display string '3h 54m 52s' and, at the hourly
\* rate 3.0, the cost 11.74; any line '; estimated printing time (...) =
\* <h>h <m>m <s>s' yields h*3600 + m*60 + s seconds.
C4_HeaderLine ==
    Ran =>
      /\ gcode = OneLine(HeaderLine)
            => /\ extracted.found
               /\ extracted.seconds = 14092
               /\ extracted.time_str = HmsExpr(Num(3), Num(54), Num(52))
               /\ CostOfSeconds(extracted.seconds, 300) = 1174
      /\ \A e \in HeaderLines :
            gcode = OneLine(e[1]) => (extracted.found /\ extracted.seconds = e[2])

C4_Witness ==
    /\ pc = "extracted"
    /\ gcode = OneLine(HeaderLine)
    /\ extracted.seconds = 14092

\* every h-m-s string of the catalogue in every surrounding: with or
\* without the comment marker, a label, a separator
AnyHmsLines ==
    { << mk \o lb \o md \o sp \o HmsOf(t), HmsSeconds(t) >> :
        mk \in Markers, lb \in Labels, md \in Mids, sp \in Separators, t \in Hms }

LabelledHmsLines ==
    { << mk \o f[1] \o md \o f[2] \o HmsOf(t), HmsSeconds(t) >> :
        mk \in CommentMarkers, f \in HmsForms, md \in Mids, t \in Hms }
\* the h-m-s strings on a line without the comment marker
UnmarkedHmsLines ==
    { lb \o md \o sp \o HmsOf(t) :
        lb \in Labels, md \in Mids, sp \in Separators, t \in Hms }

LabelledMsLines ==
    { << mk \o f[1] \o md \o f[2] \o MsExpr(Num(m), Num(s)), m * 60 + s >> :
        mk \in CommentMarkers, f \in HmsForms, md \in Mids, m \in MinVals, s \in SecVals }

\* C6: '<m>m <s>s' behind a label is recognised and yields m*60 + s
\* seconds whichever separator follows the label: every label and separator
\* accepted for the h-m-s form is accepted for the m-s form.
C6_MsWhereverHms ==
    Ran => \A e \in LabelledMsLines :
              gcode = OneLine(e[1]) => (extracted.found /\ extracted.seconds = e[2])


PairFirsts == {1, 12, 13, 15}
Triples == { <<1, 23, 45>>, <<0, 0, 0>> }

\* the colon pairs <a>:30 behind the comment marker and the label
\* 'printing time', the label behind which the colon form is looked for
LabelledPairLines ==
    { << mk \o LabelPrinting \o md \o sp \o PairExpr(Num(a), Num(30)), a >> :
        mk \in CommentMarkers, md \in Mids, sp \in Separators, a \in PairFirsts }
LabelledTripleLines ==
    { << mk \o LabelPrinting \o md \o sp \o TripleExpr(Num(t[1]), Num(t[2]), Num(t[3])),
         HmsSeconds(t) >> :
        mk \in CommentMarkers, md \in Mids, sp \in Separators, t \in Triples }

PairLinesAfterTime ==
    { << mk \o lb \o sp \o PairExpr(Num(a), Num(30)), a >> :
        mk \in CommentMarkers, lb \in { <<Tok("TIME")>>, <<Tok("time")>> },
        sp \in Colons, a \in PairFirsts }
OtherPairLines ==
    { mk \o lb \o md \o sp \o PairExpr(Num(a), Num(30)) :
        mk \in Markers, lb \in Labels, md \in Mids, sp \in Separators, a \in PairFirsts }
    \ { e[1] : e \in PairLinesAfterTime }

Shown(time_str) ==
    IF Len(time_str) = 8
    THEN [h |-> time_str[1].n, m |-> time_str[4].n, s |-> time_str[7].n]
    ELSE [h |-> 0, m |-> time_str[1].n, s |-> time_str[4].n]

\* the display string has one of the two forms, the hour part left out
\* exactly when it is zero, and states the seconds d
DisplaysDuration(time_str, d) ==
    /\ \/ /\ Len(time_str) = 8
          /\ time_str = HmsExpr(Num(time_str[1].n), Num(time_str[4].n), Num(time_str[7].n))
          /\ time_str[1].n > 0
       \/ /\ Len(time_str) = 5
          /\ time_str = MsExpr(Num(time_str[1].n), Num(time_str[4].n))
    /\ Shown(time_str).h * 3600 + Shown(time_str).m * 60 + Shown(time_str).s = d
    /\ Shown(time_str).m \in 0..59
    /\ Shown(time_str).s \in 0..59

Converts(lines, j) ==
    /\ StartsWithSemi(lines[j])
    /\ \E p \in 1..Len(time_patterns) :
          /\ Search(time_patterns[p], Lower(lines[j])).ok
          /\ ~Convert(Search(time_patterns[p], Lower(lines[j])).g).err

\* C9: the extractor never raises; it returns (None, None) when the file is
\* missing, cannot be read, is empty or has no line matching a time pattern
\* in the scanned prefix; a match that cannot be converted is skipped and the
\* scan goes on with the following patterns and lines, so that a duration is
\* found exactly when some scanned comment line has a match that converts.
C9_NeverRaises ==
    Ran =>
      /\ ~extracted.raised
      /\ (~gcode.exists \/ ~gcode.readable \/ LineCount(gcode) = 0)
            => extracted = NotFound
      /\ (gcode.exists /\ gcode.readable)
            => (extracted.found <=>
                  \E j \in 1..Len(ReadHeader(gcode)) : Converts(ReadHeader(gcode), j))
      /\ ~extracted.found => extracted = NotFound

\* C9's case: the first line has a match that int() refuses, the second a
\* match that converts
C9_Witness ==
    /\ pc = "extracted"
    /\ Len(gcode.lines) = 2
    /\ gcode.lines[1] = <<Tok(";"), Tok("TIME"), Tok(":"), BigNum>>
    /\ extracted.found
    /\ extracted.seconds = 75

\* pattern number p matches the comment line
PatternMatches(line, p) ==
    StartsWithSemi(line) /\ Search(time_patterns[p], Lower(line)).ok
\* the seconds stated by the match of pattern number p in the line
SecondsBy(line, p) == Convert(Search(time_patterns[p], Lower(line)).g).seconds
\* pattern number p matches the comment line and its groups convert
PatternConverts(line, p) ==
    PatternMatches(line, p) /\ ~Convert(Search(time_patterns[p], Lower(line)).g).err
\* the least number of a set of numbers
Least(S) == CHOOSE n \in S : \A m \in S : n <= m

\* C12 as stated: the result is taken from the first scanned comment line
\* that matches any time pattern, and within it from the first pattern of
\* the list that matches; no later line or pattern overrides it.
C12_FirstMatchDecides ==
    (Ran /\ gcode.exists /\ gcode.readable) =>
      With(ReadHeader(gcode), LAMBDA lines :
        With({ j \in 1..Len(lines) :
                 \E p \in 1..Len(time_patterns) : PatternMatches(lines[j], p) },
             LAMBDA matching :
          IF matching = {} THEN ~extracted.found
          ELSE With(lines[Least(matching)], LAMBDA line :
                 With(Least({ p \in 1..Len(time_patterns) : PatternMatches(line, p) }),
                      LAMBDA p :
                   /\ extracted.found
                   /\ extracted.seconds = SecondsBy(line, p)))))

\* C12 amended: the result is taken from the first scanned comment line
\* that has a match whose numbers convert, and within it from the first
\* pattern of the list whose match converts; no later line or pattern
\* overrides it. A match that does not convert decides nothing: the
\* following patterns and lines are tried.
C12_FirstConvertingMatchDecides ==
    (Ran /\ gcode.exists /\ gcode.readable) =>
      With(ReadHeader(gcode), LAMBDA lines :
        With({ j \in 1..Len(lines) :
                 \E p \in 1..Len(time_patterns) : PatternConverts(lines[j], p) },
             LAMBDA converting :
          IF converting = {} THEN ~extracted.found
          ELSE With(lines[Least(converting)], LAMBDA line :
                 With(Least({ p \in 1..Len(time_patterns) : PatternConverts(line, p) }),
                      LAMBDA p :
                   /\ extracted.found
                   /\ extracted.seconds = SecondsBy(line, p)
                   /\ extracted.time_str = FormatTime(SecondsBy(line, p))))))

\* C12's case: the first line is matched by the first and by the fifth
\* pattern, the second line by the seventh; the first pattern of the
\* first line decides
C12_Witness ==
    /\ pc = "extracted"
    /\ gcode.lines = << TwoPatternLine,
                        <<WS, Tok(";"), Tok("TIME"), Tok(":"), Num(75), WS>> >>
    /\ extracted.seconds = 14092


\* the first 300 lines of the file, stripped as the extractor strips them
First300(file) ==
    [j \in 1..(IF LineCount(file) < 300 THEN LineCount(file) ELSE 300) |->
        Strip(FileLine(file, j - 1))]

\* C14: the extractor reads only the first 300 lines of the G-code file: a
\* time comment on any of the first 300 lines is found, and a time comment
\* located only on line 301 or later is never used.
C14_First300LinesOnly ==
    (Ran /\ gcode.exists /\ gcode.readable) =>
      With(First300(gcode), LAMBDA lines :
        extracted.found <=> \E j \in 1..Len(lines) : Converts(lines, j))


----------------------------------------------------------------------------
(* Claims about the order queue, checked under SpecQueue *)

\* the places of order k in the list q
PlacesOf(q, k) == { i \in 1..Len(q) : q[i] = k }

\* C15: for every interleaving of two or more add_to_queue calls issued by
\* concurrent order requests, once all calls have completed get_queue
\* returns a list that contains every submitted order exactly once, with
\* the orders of sequential calls in submission order.
C15_EveryOrderExactlyOnce ==
    (\A t \in Threads : calls[t].at = "idle") =>
      With(get_queue(LoadQueue(queue_file)), LAMBDA q :
        /\ \A k \in completed : Cardinality(PlacesOf(q, k)) = 1
        /\ Len(q) = Cardinality(completed)
        /\ \A a, b \in completed :
              a \in earlier[b]
                 => \A i \in PlacesOf(q, a), j \in PlacesOf(q, b) : i < j)


====
